---- MODULE Spec2Model ----
(***************************************************************************)
(* Model of electricity_calculator.py: the estimator (base load and        *)
(* appliance energy, in IEEE-754 binary64 arithmetic as Python computes    *)
(* it), the history store kept in st.session_state.usage_data, the weekly  *)
(* slice and the script pass that Streamlit runs on every interaction.     *)
(***************************************************************************)
EXTENDS Integers, Sequences, FiniteSets, TLC

(***************************************************************************)
(* Python floats.  A float is held exactly as an integer number of units   *)
(* of 2^-56, written as NLimbs little-endian limbs in base 2^15 (TLC's     *)
(* integers are 32 bits wide).  Every float the program computes is 0 or   *)
(* lies in [0.125, 4096), where a binary64 is a multiple of 2^-55, so the  *)
(* representation is exact and rounding always drops at least one bit.     *)
(***************************************************************************)
LimbBase == 32768
NLimbs == 5
MantBits == 53

\* The({F(v) : v \in {e}}) is F(e) with e evaluated once: the bound name
\* stands for the value, not for the expression.
The(S) == CHOOSE r \in S : TRUE

Pow2Table == <<1, 2, 4, 8, 16, 32, 64, 128, 256, 512, 1024, 2048, 4096, 8192,
               16384, 32768>>
Pow2(n) == Pow2Table[n + 1]

ZeroLimbs(n) == [i \in 1..n |-> 0]

\* a * k for a small non-negative integer k, over Len(a) + 1 limbs
RECURSIVE MulSmallFrom(_, _, _, _)
MulSmallFrom(a, k, i, carry) ==
    IF i > Len(a) THEN <<carry>>
    ELSE The({<<t % LimbBase>> \o MulSmallFrom(a, k, i + 1, t \div LimbBase) :
                  t \in {a[i] * k + carry}})
MulSmall(a, k) == The({MulSmallFrom(v, w, 1, 0) : v \in {a}, w \in {k}})

\* a + b over max(Len(a), Len(b)) + 1 limbs
RECURSIVE AddFrom(_, _, _, _)
AddFrom(a, b, i, carry) ==
    IF i > Len(a) /\ i > Len(b) THEN <<carry>>
    ELSE The({<<t % LimbBase>> \o AddFrom(a, b, i + 1, t \div LimbBase) :
                  t \in {(IF i <= Len(a) THEN a[i] ELSE 0)
                           + (IF i <= Len(b) THEN b[i] ELSE 0) + carry}})
AddLimbs(a, b) == The({AddFrom(v, w, 1, 0) : v \in {a}, w \in {b}})

\* full product of two limb sequences (schoolbook)
RECURSIVE MulFrom(_, _, _)
MulFrom(a, b, i) ==
    IF i > Len(b) THEN ZeroLimbs(1)
    ELSE AddLimbs(ZeroLimbs(i - 1) \o MulSmall(a, b[i]), MulFrom(a, b, i + 1))
MulLimbs(a, b) == The({MulFrom(v, w, 1) : v \in {a}, w \in {b}})

\* quotient and remainder of a by a small positive integer q
RECURSIVE DivSmallFrom(_, _, _, _)
DivSmallFrom(a, q, i, rem) ==
    IF i = 0 THEN [quot |-> <<>>, rem |-> rem]
    ELSE The({The({[quot |-> r.quot \o <<t \div q>>, rem |-> r.rem] :
                        r \in {DivSmallFrom(a, q, i - 1, t % q)}}) :
                  t \in {rem * LimbBase + a[i]}})
DivSmall(a, q) == The({DivSmallFrom(v, w, Len(v), 0) : v \in {a}, w \in {q}})

BitLenInt(n) == CHOOSE k \in 0..15 : n < Pow2(k) /\ (k = 0 \/ n >= Pow2(k - 1))

RECURSIVE BitLenFrom(_, _)
BitLenFrom(a, i) ==
    IF i = 0 THEN 0
    ELSE IF a[i] # 0 THEN 15 * (i - 1) + BitLenInt(a[i])
    ELSE BitLenFrom(a, i - 1)
BitLen(a) == The({BitLenFrom(v, Len(v)) : v \in {a}})

\* the low NLimbs limbs (the limbs above them are zero for every value in range)
Fix(a) == SubSeq(a \o ZeroLimbs(NLimbs), 1, NLimbs)

\* round-to-nearest, ties-to-even, to MantBits significant bits; sticky says
\* that the exact value lies strictly above the integer a
RoundBits(a, s, sticky) ==
    IF s <= 0 THEN Fix(a)
    ELSE LET unit == Pow2(s)
             low  == a[1] % unit
             half == unit \div 2
             down == <<a[1] - low>> \o Tail(a)
             odd  == (a[1] \div unit) % 2 = 1
             up   == \/ low > half
                     \/ low = half /\ sticky
                     \/ low = half /\ ~sticky /\ odd
         IN  IF up THEN Fix(AddLimbs(down, <<unit>>)) ELSE Fix(down)
RoundNearestEven(a, sticky) ==
    The({The({RoundBits(v, s, sticky) : s \in {BitLen(v) - MantBits}}) : v \in {a}})

\* 2^56 units = 1.0
One == <<0, 0, 0, 2048, 0>>

\* int -> float conversion (exact for the small integers of the program)
FromInt(k) == Fix(MulSmall(One, k))

\* the float a decimal literal p/q denotes (Python's parser: correctly rounded)
Lit(p, q) ==
    The({RoundNearestEven(d.quot, d.rem # 0) :
            d \in {DivSmall(MulSmall(One, p), q)}})

\* float + float
FAdd(x, y) == RoundNearestEven(AddLimbs(x, y), FALSE)

\* float * float: the exact product is in units of 2^-112; drop 56 bits
\* (3 limbs and 11 bits), keeping what was dropped as the sticky bit
FMul(x, y) ==
    The({The({RoundNearestEven(d.quot,
                               d.rem # 0 \/ p[1] # 0 \/ p[2] # 0 \/ p[3] # 0) :
                  d \in {DivSmall(SubSeq(p, 4, Len(p)), 2048)}}) :
            p \in {MulLimbs(x, y)}})

FZero == ZeroLimbs(NLimbs)
FGreaterZero(x) == x # FZero

(***************************************************************************)
(* Strings that the program inspects character by character are sequences  *)
(* of one-character strings; str.lower() maps each character.              *)
(***************************************************************************)
UpperChars == <<"A","B","C","D","E","F","G","H","I","J","K","L","M",
                "N","O","P","Q","R","S","T","U","V","W","X","Y","Z">>
LowerChars == <<"a","b","c","d","e","f","g","h","i","j","k","l","m",
                "n","o","p","q","r","s","t","u","v","w","x","y","z">>
LowerChar(c) ==
    IF \E i \in 1..26 : UpperChars[i] = c
    THEN LowerChars[CHOOSE i \in 1..26 : UpperChars[i] = c]
    ELSE c
RECURSIVE Lower(_)
Lower(s) == IF Len(s) = 0 THEN <<>> ELSE <<LowerChar(Head(s))>> \o Lower(Tail(s))

\* the options of the housing selectbox
HousingOptions == << <<"1","B","H","K">>, <<"2","B","H","K">>, <<"3","B","H","K">> >>

\* the keys and values of the base_consumption dict, in the literal's order
BaseKeys == << <<"1","b","h","k">>, <<"2","b","h","k">>, <<"3","b","h","k">> >>
BaseValues ==
    << FAdd(FMul(FromInt(2), Lit(4, 10)), FMul(FromInt(2), Lit(8, 10))),
       FAdd(FMul(FromInt(3), Lit(4, 10)), FMul(FromInt(3), Lit(8, 10))),
       FAdd(FMul(FromInt(4), Lit(4, 10)), FMul(FromInt(4), Lit(8, 10))) >>

\* dict.get(key, default)
DictGet(keys, values, key, default) ==
    IF \E i \in 1..Len(keys) : keys[i] = key
    THEN values[CHOOSE i \in 1..Len(keys) : keys[i] = key]
    ELSE default

\* a lookup whose default is the first entry of the dict instead of 0
calculate_base_energy_default(fac) ==
    DictGet(BaseKeys, BaseValues, Lower(fac), BaseValues[1])

calculate_base_energy(fac) ==
    DictGet(BaseKeys, BaseValues, Lower(fac), FZero)

\* the products added by calculate_appliance_energy
AcEnergy == FMul(Lit(15, 10), FromInt(8))
FridgeEnergy == FMul(Lit(15, 100), FromInt(24))
WashingMachineEnergy == FromInt(2)
TvEnergy == FMul(Lit(15, 100), FromInt(6))
MicrowaveEnergy == FMul(Lit(12, 10), Lit(5, 10))
WaterHeaterEnergy == FMul(FromInt(2), FromInt(2))

\* one "if flag: total += energy" statement
AddIf(flag, total, energy) == IF flag THEN FAdd(total, energy) ELSE total

calculate_appliance_energy(ac, fridge, washing_machine, tv, microwave, water_heater) ==
    AddIf(water_heater,
      AddIf(microwave,
        AddIf(tv,
          AddIf(washing_machine,
            AddIf(fridge,
              AddIf(ac, FZero, AcEnergy),
              FridgeEnergy),
            WashingMachineEnergy),
          TvEnergy),
        MicrowaveEnergy),
      WaterHeaterEnergy)

(***************************************************************************)
(* Dates.  A datetime is [ord, tod]: the proleptic Gregorian ordinal of    *)
(* its day and the time of day (0 is midnight exactly).  strftime with     *)
(* "%Y-%m-%d" gives fixed-width fields, held as <<year, month, day>>.       *)
(***************************************************************************)
DaysInMonthTable == <<31, 28, 31, 30, 31, 30, 31, 31, 30, 31, 30, 31>>
IsLeap(y) == y % 4 = 0 /\ (y % 100 # 0 \/ y % 400 = 0)
DaysBeforeYear(y) ==
    LET y1 == y - 1 IN y1 * 365 + y1 \div 4 - y1 \div 100 + y1 \div 400
DaysInMonth(y, m) == IF m = 2 /\ IsLeap(y) THEN 29 ELSE DaysInMonthTable[m]
DaysBeforeMonthTable == <<0, 31, 59, 90, 120, 151, 181, 212, 243, 273, 304, 334>>
DaysBeforeMonth(y, m) ==
    DaysBeforeMonthTable[m] + (IF m > 2 /\ IsLeap(y) THEN 1 ELSE 0)
Ymd2Ord(y, m, d) == DaysBeforeYear(y) + DaysBeforeMonth(y, m) + d

Ord2Ymd(ord) ==
    LET n0   == ord - 1
        n400 == n0 \div 146097
        r400 == n0 % 146097
        n100 == r400 \div 36524
        r100 == r400 % 36524
        n4   == r100 \div 1461
        r4   == r100 % 1461
        n1   == r4 \div 365
        n    == r4 % 365
        year == n400 * 400 + 1 + n100 * 100 + n4 * 4 + n1
        leap == n1 = 3 /\ (n4 # 24 \/ n100 = 3)
        m0   == (n + 50) \div 32
        p0   == DaysBeforeMonthTable[m0] + (IF m0 > 2 /\ leap THEN 1 ELSE 0)
        mon  == IF p0 > n THEN m0 - 1 ELSE m0
        prec == IF p0 > n
                THEN p0 - (DaysInMonthTable[mon] + (IF mon = 2 /\ leap THEN 1 ELSE 0))
                ELSE p0
    IN  IF n1 = 4 \/ n100 = 4 THEN <<year - 1, 12, 31>>
        ELSE <<year, mon, n - prec + 1>>

\* datetime.strftime("%Y-%m-%d")
Strftime(dt) == Ord2Ymd(dt.ord)
\* pd.to_datetime of a "%Y-%m-%d" string: that day at midnight
ToDatetime(s) == [ord |-> Ymd2Ord(s[1], s[2], s[3]), tod |-> 0]
\* datetime - timedelta(days = k)
MinusDays(dt, k) == [ord |-> dt.ord - k, tod |-> dt.tod]
\* datetime >= datetime
DtGeq(a, b) == a.ord > b.ord \/ (a.ord = b.ord /\ a.tod >= b.tod)

WindowDays == 7

(***************************************************************************)
(* Session state, the script's globals after the last run, and the clock.  *)
(***************************************************************************)
VARIABLES
    usage_data,         \* st.session_state.usage_data
    user_profile,       \* st.session_state.user_profile (NoProfile is {})
    clock,              \* the last value datetime.now() returned
    name,               \* the widgets' values in the last run
    facility,
    appliances,
    clicked,            \* what st.button returned in the last run
    base_energy,
    appliance_energy,
    total_energy,
    usage_entry,        \* the entry save_daily_usage built, None if it did not run
    existing_index,     \* its existing_index: None, or Some(position found)
    message,            \* "success", "error" or "none"
    weekly_data,        \* rows of the frame get_weekly_data returned
    branch,             \* "analytics" or "empty"
    stats_input,        \* the column the weekly statistics ran over, None if they did not
    active_appliances   \* the breakdown dict, None if it was not built

vars == <<usage_data, user_profile, clock, name, facility, appliances, clicked,
          base_energy, appliance_energy, total_energy, usage_entry, existing_index,
          message, weekly_data, branch, stats_input, active_appliances>>

\* an optional value: None, or Some(x)
None == <<>>
Some(x) == <<x>>
\* the empty dict
NoProfile == <<>>

\* bounds of the exploration
StartOrd == 738880      \* the session starts on 2023-12-26
MaxDay == 1             \* days a session may run past StartOrd
WeekSpan == 8           \* days a session of SpecWeek may run past StartOrd
MaxTod == 1             \* times of day told apart: 0 midnight, 1..MaxTod later
MaxEntries == 2         \* entries the store may hold

TimesUpTo(days) == [ord : StartOrd..(StartOrd + days), tod : 0..MaxTod]
Times == TimesUpTo(MaxDay)
WeekTimes == TimesUpTo(WeekSpan)
\* a later reading of the clock within one run: the same instant or the next
NextInstant(t) ==
    IF t.tod < MaxTod THEN [ord |-> t.ord, tod |-> t.tod + 1]
    ELSE [ord |-> t.ord + 1, tod |-> 0]
Drift(t) == {t, NextInstant(t)}

FlagNames == {"ac", "fridge", "washing_machine", "tv", "microwave", "water_heater"}
AllFlags == [FlagNames -> BOOLEAN]
NoFlags == [f \in FlagNames |-> FALSE]
OnlyFlags(S) == [f \in FlagNames |-> f \in S]

\* the user_data dict of the save handler
UserData(n, fac, fl) ==
    [name |-> n, age |-> 25, city |-> "", area |-> "", flat_tenement |-> "Flat",
     facility |-> fac, ac |-> fl["ac"], fridge |-> fl["fridge"],
     washing_machine |-> fl["washing_machine"], tv |-> fl["tv"],
     microwave |-> fl["microwave"], water_heater |-> fl["water_heater"]]

\* a save that never looks for today's entry
save_daily_usage_append(store, total, user_data, today_dt, timestamp_dt) ==
    LET entry == [date |-> Strftime(today_dt), total_energy |-> total,
                  user_data |-> user_data, timestamp |-> timestamp_dt]
    IN  [entry |-> entry, existing_index |-> None, store |-> Append(store, entry)]

\* a save that leaves today's entry as it is when there is one
save_daily_usage_keep(store, total, user_data, today_dt, timestamp_dt) ==
    LET today == Strftime(today_dt)
        entry == [date |-> today, total_energy |-> total,
                  user_data |-> user_data, timestamp |-> timestamp_dt]
        found == {i \in 1..Len(store) : store[i].date = today}
    IN  [entry |-> entry,
         existing_index |-> IF found # {} THEN Some(CHOOSE i \in found : TRUE) ELSE None,
         store |-> IF found # {} THEN store ELSE Append(store, entry)]

\* a save that puts a new date's entry in front of the others
save_daily_usage_front(store, total, user_data, today_dt, timestamp_dt) ==
    LET today == Strftime(today_dt)
        entry == [date |-> today, total_energy |-> total,
                  user_data |-> user_data, timestamp |-> timestamp_dt]
        found == {i \in 1..Len(store) : store[i].date = today}
        index == IF found = {} THEN 0 ELSE CHOOSE i \in found : \A j \in found : i <= j
    IN  [entry |-> entry,
         existing_index |-> IF index # 0 THEN Some(index) ELSE None,
         store |-> IF index # 0
                   THEN [store EXCEPT ![index] = entry]
                   ELSE <<entry>> \o store]

\* save_daily_usage: today and timestamp are its two readings of the clock
save_daily_usage(store, total, user_data, today_dt, timestamp_dt) ==
    LET today == Strftime(today_dt)
        entry == [date |-> today, total_energy |-> total,
                  user_data |-> user_data, timestamp |-> timestamp_dt]
        found == {i \in 1..Len(store) : store[i].date = today}
        index ==
            IF found = {} THEN 0
            ELSE CHOOSE i \in found : \A j \in found : i <= j
    IN  [entry |-> entry,
         existing_index |-> IF index # 0 THEN Some(index) ELSE None,
         store |-> IF index # 0
                   THEN [store EXCEPT ![index] = entry]
                   ELSE Append(store, entry)]

\* DataFrame.sort_values('date'): ascending, rows with equal keys in their order
RECURSIVE SortByDate(_)
SortByDate(rows) ==
    IF Len(rows) = 0 THEN <<>>
    ELSE LET i == CHOOSE k \in 1..Len(rows) :
                     /\ \A j \in 1..Len(rows) : DtGeq(rows[j].date, rows[k].date)
                     /\ \A j \in 1..(k - 1) : rows[j].date # rows[k].date
             rest == [j \in 1..(Len(rows) - 1) |->
                        IF j < i THEN rows[j] ELSE rows[j + 1]]
         IN  <<rows[i]>> \o SortByDate(rest)

\* df[df['date'] >= start_date]
RECURSIVE FilterFrom(_, _)
FilterFrom(rows, start_date) ==
    IF Len(rows) = 0 THEN <<>>
    ELSE (IF DtGeq(rows[1].date, start_date) THEN <<rows[1]>> ELSE <<>>)
         \o FilterFrom(Tail(rows), start_date)

\* a slice that compares with > instead of >=
get_weekly_data_strict(store, now) ==
    IF Len(store) = 0 THEN <<>>
    ELSE LET df == [i \in 1..Len(store) |->
                      [store[i] EXCEPT !.date = ToDatetime(store[i].date)]]
             start_date == MinusDays(now, WindowDays)
             keep == {i \in 1..Len(df) : ~DtGeq(start_date, df[i].date)}
             RECURSIVE Kept(_)
             Kept(i) == IF i > Len(df) THEN <<>>
                        ELSE (IF i \in keep THEN <<df[i]>> ELSE <<>>) \o Kept(i + 1)
         IN  SortByDate(Kept(1))

get_weekly_data(store, now) ==
    IF Len(store) = 0 THEN <<>>
    ELSE LET df == [i \in 1..Len(store) |->
                      [store[i] EXCEPT !.date = ToDatetime(store[i].date)]]
             end_date == now
             start_date == MinusDays(end_date, WindowDays)
         IN  SortByDate(FilterFrom(df, start_date))

\* not weekly_data.empty
NotEmpty(frame) == Len(frame) > 0

\* an analytics section without its guard
AnalyticsGuardAlways(frame) == TRUE

\* the guard of the analytics section
AnalyticsGuard(frame) == NotEmpty(frame)

\* a handler that accepts every name
TruthyAlways(str) == TRUE

\* "if name:" of the save handler
Truthy(str) == str # ""

\* an analytics section that runs before the save handler
StoreBeforeHandler(before_handler, after_handler) == before_handler

\* The analytics section comes after the save handler in the script, so
\* get_weekly_data reads the store the handler has left.
StoreAtAnalytics(before_handler, after_handler) == after_handler

\* the appliances dict of the detailed analysis, in insertion order
BreakdownKeys == <<"AC", "Fridge", "Washing Machine", "TV", "Microwave",
                   "Water Heater", "Base (Lights & Fans)">>
\* the literals 12.0, 3.6, 2.0, 0.9, 0.6, 4.0 of the dict
BreakdownLiterals == <<Lit(120, 10), Lit(36, 10), Lit(20, 10), Lit(9, 10),
                       Lit(6, 10), Lit(40, 10)>>
Breakdown(latest_data) ==
    [k \in {BreakdownKeys[i] : i \in 1..Len(BreakdownKeys)} |->
        CASE k = "AC" -> IF latest_data.ac THEN BreakdownLiterals[1] ELSE FZero
          [] k = "Fridge" -> IF latest_data.fridge THEN BreakdownLiterals[2] ELSE FZero
          [] k = "Washing Machine" ->
                IF latest_data.washing_machine THEN BreakdownLiterals[3] ELSE FZero
          [] k = "TV" -> IF latest_data.tv THEN BreakdownLiterals[4] ELSE FZero
          [] k = "Microwave" -> IF latest_data.microwave THEN BreakdownLiterals[5] ELSE FZero
          [] k = "Water Heater" ->
                IF latest_data.water_heater THEN BreakdownLiterals[6] ELSE FZero
          [] OTHER -> calculate_base_energy(latest_data.facility)]
\* {k: v for k, v in appliances.items() if v > 0}
ActiveAppliances(latest_data) ==
    The({[k \in {j \in DOMAIN a : FGreaterZero(a[j])} |-> a[k]] :
            a \in {Breakdown(latest_data)}})

\* the inputs the session's runs draw from
Names == {"", "a"}
Facilities == {HousingOptions[1], HousingOptions[2]}
WeekFlagSets == {NoFlags}
WeekFacilities == {HousingOptions[3]}
WeekNames == {"a"}
FlagSets == {NoFlags, OnlyFlags({"fridge"})}

\* The calculation of a run (base_energy, appliance_energy, total_energy) for
\* every housing string and flag combination, evaluated once.
Calculation(fac, fl) ==
    The({[base_energy |-> base, appliance_energy |-> app,
          total_energy |-> FAdd(base, app)] :
            base \in {calculate_base_energy(fac)},
            app \in {calculate_appliance_energy(fl["ac"], fl["fridge"],
                        fl["washing_machine"], fl["tv"], fl["microwave"],
                        fl["water_heater"])}})
\* (TLC evaluates a function over 1..n once, so the table is indexed by the
\* position of the housing string and by the flags read as a binary number.)
FacilityList ==
    << HousingOptions[1], HousingOptions[2], HousingOptions[3],
       BaseKeys[1], BaseKeys[2], BaseKeys[3],
       <<"2","b","H","k">>, <<"4","B","H","K">>, <<"B","H","K">>, <<>>,
       <<"V","i","l","l","a">>, <<"1","B","H","K"," ">> >>
FlagCode(fl) ==
    1 + (IF fl["ac"] THEN 1 ELSE 0) + (IF fl["fridge"] THEN 2 ELSE 0)
      + (IF fl["washing_machine"] THEN 4 ELSE 0) + (IF fl["tv"] THEN 8 ELSE 0)
      + (IF fl["microwave"] THEN 16 ELSE 0) + (IF fl["water_heater"] THEN 32 ELSE 0)
FlagsOfCode(c) ==
    [f \in FlagNames |->
        CASE f = "ac" -> ((c - 1) \div 1) % 2 = 1
          [] f = "fridge" -> ((c - 1) \div 2) % 2 = 1
          [] f = "washing_machine" -> ((c - 1) \div 4) % 2 = 1
          [] f = "tv" -> ((c - 1) \div 8) % 2 = 1
          [] f = "microwave" -> ((c - 1) \div 16) % 2 = 1
          [] OTHER -> ((c - 1) \div 32) % 2 = 1]
CalculationTable ==
    [i \in 1..Len(FacilityList) |->
        [c \in 1..64 |-> Calculation(FacilityList[i], FlagsOfCode(c))]]
Calculated(fac, fl) ==
    CalculationTable[CHOOSE i \in 1..Len(FacilityList) : FacilityList[i] = fac]
                    [FlagCode(fl)]

\* strings calculate_base_energy is applied to
FacilityStrings == {FacilityList[i] : i \in 1..Len(FacilityList)}

Column(frame) == [i \in 1..Len(frame) |-> frame[i].total_energy]

Init ==
    /\ usage_data = <<>>
    /\ user_profile = NoProfile
    /\ clock \in {t \in Times : t.ord = StartOrd}
    /\ name = ""
    /\ facility = HousingOptions[1]
    /\ appliances = NoFlags
    /\ clicked = FALSE
    /\ \E calc \in {Calculated(HousingOptions[1], NoFlags)} :
          /\ base_energy = calc.base_energy
          /\ appliance_energy = calc.appliance_energy
          /\ total_energy = calc.total_energy
    /\ usage_entry = None
    /\ existing_index = None
    /\ message = "none"
    /\ weekly_data = <<>>
    /\ branch = "empty"
    /\ stats_input = None
    /\ active_appliances = None

\* The breakdown of every snapshot the widgets can produce, evaluated once.
ActiveTable ==
    [i \in 1..Len(HousingOptions) |->
        [c \in 1..64 |->
            ActiveAppliances(UserData("", HousingOptions[i], FlagsOfCode(c)))]]
ActiveOf(user_data) ==
    ActiveTable[CHOOSE i \in 1..Len(HousingOptions) :
                    HousingOptions[i] = user_data.facility]
               [FlagCode(user_data)]

\* one run of the script: widgets, calculation, save handler, analytics.
\* The clock is read in save_daily_usage (t1 for today, t2 for the timestamp)
\* and in get_weekly_data (t3); without an accepted save only t3 is read.
Pass(nameSet, facilitySet, flagSet, times) ==
    \E n \in nameSet, fac \in facilitySet, fl \in flagSet, c \in BOOLEAN :
    \E t1 \in {t \in times : DtGeq(t, clock)} :
    \E accepted \in {c /\ Truthy(n)} :
    \E t2 \in (IF accepted THEN Drift(t1) \cap times ELSE {t1}) :
    \E t3 \in (IF accepted THEN Drift(t2) \cap times ELSE {t1}) :
    \E calc \in {Calculated(fac, fl)} :
    \E user_data \in {UserData(n, fac, fl)} :
    \E saved \in {save_daily_usage(usage_data, calc.total_energy, user_data, t1, t2)} :
    \E store \in {IF accepted THEN saved.store ELSE usage_data} :
    \E weekly \in {get_weekly_data(StoreAtAnalytics(usage_data, store), t3)} :
    \E analytics \in {AnalyticsGuard(weekly)} :
        /\ Len(store) <= MaxEntries
        /\ name' = n
        /\ facility' = fac
        /\ appliances' = fl
        /\ clicked' = c
        /\ base_energy' = calc.base_energy
        /\ appliance_energy' = calc.appliance_energy
        /\ total_energy' = calc.total_energy
        /\ user_profile' = IF accepted THEN user_data ELSE user_profile
        /\ usage_data' = store
        /\ usage_entry' = IF accepted THEN Some(saved.entry) ELSE None
        /\ existing_index' = IF accepted THEN saved.existing_index ELSE None
        /\ message' = IF ~c THEN "none" ELSE IF Truthy(n) THEN "success" ELSE "error"
        /\ clock' = t3
        /\ weekly_data' = weekly
        /\ branch' = IF analytics THEN "analytics" ELSE "empty"
        /\ stats_input' = IF analytics THEN Some(Column(weekly)) ELSE None
        /\ active_appliances' =
              IF analytics /\ NotEmpty(weekly)
              THEN Some(ActiveOf(weekly[Len(weekly)].user_data))
              ELSE None

Run == Pass(Names, Facilities, FlagSets, Times)

Next == Run

Spec == Init /\ [][Next]_vars

\* a session that runs long enough for entries to leave the weekly window
RunWeek == Pass(WeekNames, WeekFacilities, WeekFlagSets, WeekTimes)

NextWeek == RunWeek

SpecWeek == Init /\ [][NextWeek]_vars

\* the calculation of a run, applied to any housing string and any flags
Estimate ==
    \E fac \in FacilityStrings, fl \in AllFlags :
    \E calc \in {Calculated(fac, fl)} :
        /\ facility' = fac
        /\ appliances' = fl
        /\ base_energy' = calc.base_energy
        /\ appliance_energy' = calc.appliance_energy
        /\ total_energy' = calc.total_energy
        /\ UNCHANGED <<usage_data, user_profile, clock, name, clicked, usage_entry,
                       existing_index, message, weekly_data, branch, stats_input, active_appliances>>

NextEst == Estimate

SpecEst == Init /\ [][NextEst]_vars

(***************************************************************************)
(* Properties                                                              *)
(***************************************************************************)
DayOf(entry) == Ymd2Ord(entry.date[1], entry.date[2], entry.date[3])
RowOf(entry) == [entry EXCEPT !.date = [ord |-> DayOf(entry), tod |-> 0]]
Entries == {usage_data[i] : i \in 1..Len(usage_data)}
Rows(frame) == {frame[i] : i \in 1..Len(frame)}
Ascending(frame) ==
    \A i \in 1..(Len(frame) - 1) : frame[i].date.ord < frame[i + 1].date.ord

\* C1: the store never holds two entries with the same date string.
C1_OneEntryPerDate ==
    \A i, j \in 1..Len(usage_data) :
        i # j => usage_data[i].date # usage_data[j].date
\* a second save on a date has been accepted while the store holds two dates
C1_Witness ==
    /\ message = "success"
    /\ existing_index # None
    /\ Len(usage_data) = 2

\* C2: an accepted save on a date that already has an entry leaves exactly one
\* entry for that date, carrying this save's total energy and profile snapshot.
C2_SecondSaveWins ==
    [][ (/\ message' = "success"
         /\ \E i \in 1..Len(usage_data) : usage_data[i].date = usage_entry'[1].date)
        => LET today == usage_entry'[1].date
               same  == {i \in 1..Len(usage_data') : usage_data'[i].date = today}
           IN  /\ Cardinality(same) = 1
               /\ \A i \in same :
                    /\ usage_data'[i].total_energy = total_energy'
                    /\ usage_data'[i].user_data = UserData(name', facility', appliances')
      ]_vars
\* today's entry was found and now carries the fridge-only snapshot's total
C2_Witness ==
    /\ message = "success"
    /\ existing_index # None
    /\ appliances = OnlyFlags({"fridge"})
    /\ \E i \in 1..Len(usage_data) :
          /\ usage_data[i].date = usage_entry[1].date
          /\ usage_data[i].total_energy = total_energy

\* C3: a save attempted with an empty name shows the error and changes neither
\* the store nor the session profile.
C3_RejectedSaveChangesNothing ==
    [][ (clicked' /\ name' = "")
        => /\ message' = "error"
           /\ usage_data' = usage_data
           /\ user_profile' = user_profile
      ]_vars
\* a save was rejected in a session that already holds history and a profile,
\* with widgets that differ from the stored profile
C3_Witness ==
    /\ message = "error"
    /\ Len(usage_data) > 0
    /\ DOMAIN user_profile # {}
    /\ appliances # NoFlags

\* C4 (as claimed): for the three housing types and every flag combination the
\* estimate is the decimal sum of the tabulated constants, exactly.
TenthsOf(fac, fl) ==
    (CASE fac = HousingOptions[1] -> 24
       [] fac = HousingOptions[2] -> 36
       [] OTHER -> 48)
    + (IF fl["ac"] THEN 120 ELSE 0) + (IF fl["fridge"] THEN 36 ELSE 0)
    + (IF fl["washing_machine"] THEN 20 ELSE 0) + (IF fl["tv"] THEN 9 ELSE 0)
    + (IF fl["microwave"] THEN 6 ELSE 0) + (IF fl["water_heater"] THEN 40 ELSE 0)
C4_ExactEstimate ==
    (\E i \in 1..3 : facility = HousingOptions[i])
        => total_energy = Lit(TenthsOf(facility, appliances), 10)

\* C5 (as claimed): the weekly slice is exactly the entries whose calendar date
\* lies in [today - 7, today], ascending by date.
C5_ClosedCalendarWindow ==
    /\ Rows(weekly_data) =
         {RowOf(e) : e \in {x \in Entries :
                              /\ DayOf(x) >= clock.ord - WindowDays
                              /\ DayOf(x) <= clock.ord}}
    /\ Ascending(weekly_data)
\* C5 (amended): the weekly slice is exactly the entries whose date, taken at
\* midnight, is not before the instant now - 7 days: the dates today - 6 to
\* today, and today - 7 as well when now is midnight exactly; ascending by
\* date; no stored date is after today.
C5_InstantWindow ==
    /\ Rows(weekly_data) =
         {RowOf(e) : e \in {x \in Entries :
                              /\ DayOf(x) <= clock.ord
                              /\ \/ DayOf(x) >= clock.ord - (WindowDays - 1)
                                 \/ DayOf(x) = clock.ord - WindowDays /\ clock.tod = 0}}
    /\ \A x \in Entries : DayOf(x) <= clock.ord
    /\ Ascending(weekly_data)
    /\ Len(weekly_data) = Cardinality(Rows(weekly_data))
\* now is after midnight, the entry dated seven days ago is left out and a
\* later entry is kept
C5_Witness ==
    /\ clock.tod > 0
    /\ \E x \in Entries : DayOf(x) = clock.ord - WindowDays
    /\ Len(weekly_data) = 1
    /\ Len(usage_data) = 2

\* C6: a save changes the store only at the saved date: an existing entry is
\* replaced where it is, a new date is appended at the end, every other entry
\* stays as and where it was; a run without an accepted save changes nothing.
C6_UpsertFrame ==
    [][ IF message' # "success" THEN usage_data' = usage_data
        ELSE LET e   == usage_entry'[1]
                 had == \E i \in 1..Len(usage_data) : usage_data[i].date = e.date
             IN  /\ had => /\ Len(usage_data') = Len(usage_data)
                           /\ \A i \in 1..Len(usage_data) :
                                usage_data'[i] = IF usage_data[i].date = e.date
                                                 THEN e ELSE usage_data[i]
                 /\ ~had => usage_data' = Append(usage_data, e)
      ]_vars
\* a new date was appended behind an older entry
C6_Witness ==
    /\ message = "success"
    /\ existing_index = None
    /\ Len(usage_data) = 2
    /\ usage_data[2] = usage_entry[1]

\* C7: a housing string that is no spelling of the three mapped types has base
\* load 0, so the total is the appliance energy; the mapped types have a
\* non-zero base load.
MappedSpellings ==
    { <<"1","B","H","K">>, <<"2","B","H","K">>, <<"3","B","H","K">>,
      <<"1","b","h","k">>, <<"2","b","h","k">>, <<"3","b","h","k">>,
      <<"2","b","H","k">> }
C7_UnknownHousingIsZero ==
    /\ facility \notin MappedSpellings
          => base_energy = FZero /\ total_energy = appliance_energy
    /\ facility \in MappedSpellings => base_energy # FZero
\* an unknown housing string was estimated with appliances switched on
C7_Witness ==
    /\ facility = <<"4","B","H","K">>
    /\ appliances["ac"]
    /\ total_energy = appliance_energy
    /\ total_energy # FZero

\* C8: the weekly statistics run only over a non-empty weekly slice.
C8_StatsGuarded ==
    /\ stats_input # None => Len(weekly_data) > 0 /\ Len(stats_input[1]) > 0
    /\ Len(weekly_data) = 0 => branch = "empty" /\ stats_input = None
\* the store holds history, none of it is in the window, and nothing was computed
C8_Witness ==
    /\ Len(usage_data) > 0
    /\ Len(weekly_data) = 0
    /\ stats_input = None

\* C9 (as claimed): the breakdown of the latest entry maps exactly the flagged
\* appliances to their tabulated contributions and Base to the base load,
\* holds no zero, and its values add up to the entry's stored total.
RECURSIVE SumValues(_, _)
SumValues(dict, i) ==
    IF i = 0 THEN FZero
    ELSE LET rest == SumValues(dict, i - 1)
         IN  IF BreakdownKeys[i] \in DOMAIN dict
             THEN FAdd(rest, dict[BreakdownKeys[i]]) ELSE rest
C9_BreakdownSumsToTotal ==
    active_appliances # None =>
        LET row == weekly_data[Len(weekly_data)]
            ud  == row.user_data
            d   == active_appliances[1]
            Has(k, flag, tenths) ==
                /\ (k \in DOMAIN d) <=> flag
                /\ k \in DOMAIN d => d[k] = Lit(tenths, 10)
        IN  /\ Has("AC", ud.ac, 120)
            /\ Has("Fridge", ud.fridge, 36)
            /\ Has("Washing Machine", ud.washing_machine, 20)
            /\ Has("TV", ud.tv, 9)
            /\ Has("Microwave", ud.microwave, 6)
            /\ Has("Water Heater", ud.water_heater, 40)
            /\ "Base (Lights & Fans)" \in DOMAIN d
            /\ d["Base (Lights & Fans)"] = calculate_base_energy(ud.facility)
            /\ \A k \in DOMAIN d : d[k] # FZero
            /\ SumValues(d, Len(BreakdownKeys)) = row.total_energy

\* C10: in a run with an accepted save the analytics see the save: the weekly
\* slice holds today's entry with the total just saved, the session profile is
\* that entry's snapshot, and the analytics branch is taken.
C10_AnalyticsSeeTheSave ==
    message = "success" =>
        /\ branch = "analytics"
        /\ \E i \in 1..Len(weekly_data) :
              /\ weekly_data[i] = RowOf(usage_entry[1])
              /\ weekly_data[i].total_energy = total_energy
              /\ weekly_data[i].user_data = user_profile
\* today's entry was saved again with another total
C10_Witness ==
    /\ message = "success"
    /\ existing_index # None
    /\ branch = "analytics"
    /\ usage_entry[1].total_energy = total_energy
    /\ appliances["fridge"]
====
